---- MODULE Spec2Model ----
(***************************************************************************)
(* State-machine model of sqlitedumper (src/src/main.rs): the coordinator  *)
(* (main), table discovery (get_tables), the per-table exporter            *)
(* (dump_table) with the buffering csv writer, and the row encoder.        *)
(*                                                                         *)
(* Text is a sequence of one-character strings.  An i64 is held as a sign  *)
(* and a canonical sequence of decimal digits, so that values beyond the   *)
(* model checker's native integers (the out-of-range epochs) keep their    *)
(* exact value.                                                            *)
(***************************************************************************)
EXTENDS Integers, Sequences, FiniteSets, TLC

\* ------------------------------------------------------------------ bounds

\* Largest number of rows in the database.
MaxRows == 2

\* Largest number of failures of the environment (file system, database
\* engine) within one run; failures caused by the data are not counted.
MaxFaults == 1

\* Worker threads of the scaled-down runtime of the termination runs: fewer
\* than the two tables, as the program's 8 are fewer than 9 tables or more.
SmallRuntime == 1

\* ------------------------------------------------------- program constants

DB_DEFAULT_FILENAME == "appliance_stats.sqlite"
DUMP_OUTPUT_DIR_DEFAULT == "sqlite_dump"

\* #[tokio::main(flavor = "multi_thread", worker_threads = 8)] (line 153).
worker_threads == 8

\* ------------------------------------------------------------ text helpers

DigitChar == <<"0", "1", "2", "3", "4", "5", "6", "7", "8", "9">>

IsDigitChar(c) == \E d \in 1..10 : DigitChar[d] = c

DigitOf(c) == (CHOOSE d \in 1..10 : DigitChar[d] = c) - 1

RECURSIVE StripZeros(_)
\* Canonical magnitude: no leading zero except for zero itself.
StripZeros(mag) ==
    IF Len(mag) > 1 /\ mag[1] = 0 THEN StripZeros(Tail(mag)) ELSE mag

RECURSIVE CmpMag(_, _)
\* Three-way comparison (-1, 0, 1) of two canonical magnitudes.
CmpMag(a, b) ==
    IF Len(a) # Len(b) THEN (IF Len(a) < Len(b) THEN -1 ELSE 1)
    ELSE IF Len(a) = 0 THEN 0
    ELSE IF a[1] # b[1] THEN (IF a[1] < b[1] THEN -1 ELSE 1)
    ELSE CmpMag(Tail(a), Tail(b))

I64(neg, mag) == [neg |-> neg, mag |-> mag]

\* |i64::MIN| and i64::MAX as magnitudes.
I64MaxMag == <<9,2,2,3,3,7,2,0,3,6,8,5,4,7,7,5,8,0,7>>
I64MinMag == <<9,2,2,3,3,7,2,0,3,6,8,5,4,7,7,5,8,0,8>>

\* i64::to_string: an optional minus sign and the decimal digits.
i64_to_string(v) ==
    (IF v.neg THEN <<"-">> ELSE <<>>) \o
    [i \in 1..Len(v.mag) |-> DigitChar[v.mag[i] + 1]]

\* str::parse::<i64>: an optional sign, then one or more decimal digits, the
\* value within the range of i64.  Yields [ok, val].
parse_i64(txt) ==
    LET signed == Len(txt) > 0 /\ txt[1] \in {"+", "-"}
        neg    == Len(txt) > 0 /\ txt[1] = "-"
        body   == IF signed THEN Tail(txt) ELSE txt
    IN  IF Len(body) = 0 \/ \E i \in 1..Len(body) : ~IsDigitChar(body[i])
        THEN [ok |-> FALSE, val |-> I64(FALSE, <<0>>)]
        ELSE LET mag == StripZeros([i \in 1..Len(body) |-> DigitOf(body[i])])
                 lim == IF neg THEN I64MinMag ELSE I64MaxMag
             IN  IF CmpMag(mag, lim) = 1
                 THEN [ok |-> FALSE, val |-> I64(FALSE, <<0>>)]
                 ELSE [ok |-> TRUE, val |-> I64(neg /\ mag # <<0>>, mag)]

SECS_PER_DAY == 86400

RECURSIVE DivMod(_, _, _, _)
\* Long division of a magnitude by a small divisor d, digit by digit, from the
\* quotient q and remainder r of the digits already read.  Yields [q, r].
DivMod(mag, d, q, r) ==
    IF Len(mag) = 0 THEN [q |-> q, r |-> r]
    ELSE LET n == r * 10 + mag[1]
         IN  DivMod(Tail(mag), d, q * 10 + n \div d, n % d)

\* div_euclid and rem_euclid of an epoch value by the seconds of a day:
\* the day count relative to 1970-01-01 and the second of that day.
days_and_secs(ts) ==
    LET dm == DivMod(ts.mag, SECS_PER_DAY, 0, 0)
    IN  IF ~ts.neg THEN [days |-> dm.q, sod |-> dm.r]
        ELSE IF dm.r = 0 THEN [days |-> 0 - dm.q, sod |-> 0]
        ELSE [days |-> 0 - dm.q - 1, sod |-> SECS_PER_DAY - dm.r]

RECURSIVE NatDigits(_)
\* Decimal digits of a natural number, most significant first.
NatDigits(n) ==
    IF n < 10 THEN <<DigitChar[n + 1]>>
    ELSE NatDigits(n \div 10) \o <<DigitChar[(n % 10) + 1]>>

\* A natural number zero-padded on the left to at least w digits.
RECURSIVE Pad(_, _)
Pad(chars, w) == IF Len(chars) >= w THEN chars ELSE Pad(<<"0">> \o chars, w)

\* ------------------------------------------------------------------ chrono

\* Epoch seconds of +262142-12-31T23:59:59Z and of -262143-01-01T00:00:00Z,
\* the last and first instants chrono's DateTime<Utc> can hold.
ChronoMaxMag == <<8,2,1,0,2,6,6,8,7,6,7,9,9>>
ChronoMinMag == <<8,3,3,4,6,0,1,2,2,8,8,0,0>>

\* Utc.timestamp_opt(ts, 0) is LocalResult::Single exactly for these values.
timestamp_in_range(ts) ==
    CmpMag(ts.mag, IF ts.neg THEN ChronoMinMag ELSE ChronoMaxMag) # 1

\* Proleptic Gregorian date of a day count relative to 1970-01-01.
civil_from_days(days) ==
    LET z   == days + 719468
        era == z \div 146097
        doe == z - era * 146097
        yoe == (doe - doe \div 1460 + doe \div 36524 - doe \div 146096) \div 365
        doy == doe - (365 * yoe + yoe \div 4 - yoe \div 100)
        mp  == (5 * doy + 2) \div 153
        d   == doy - (153 * mp + 2) \div 5 + 1
        m   == IF mp < 10 THEN mp + 3 ELSE mp - 9
        y   == yoe + era * 400 + (IF m <= 2 THEN 1 ELSE 0)
    IN  [year |-> y, month |-> m, day |-> d]

\* The year as chrono writes it: four digits for the years 0 to 9999, else
\* a sign and at least four digits ("{:+05}").
year_text(y) ==
    IF y >= 0 /\ y <= 9999 THEN Pad(NatDigits(y), 4)
    ELSE IF y < 0 THEN <<"-">> \o Pad(NatDigits(0 - y), 4)
    ELSE <<"+">> \o Pad(NatDigits(y), 4)

\* DateTime<Utc>::to_rfc3339_opts(SecondsFormat::Secs, true) of an epoch
\* value in chrono's range.
to_rfc3339_opts(ts) ==
    LET ds   == days_and_secs(ts)
        date == civil_from_days(ds.days)
        sod  == ds.sod
    IN  year_text(date.year) \o <<"-">> \o
        Pad(NatDigits(date.month), 2) \o <<"-">> \o
        Pad(NatDigits(date.day), 2) \o <<"T">> \o
        Pad(NatDigits(sod \div 3600), 2) \o <<":">> \o
        Pad(NatDigits((sod % 3600) \div 60), 2) \o <<":">> \o
        Pad(NatDigits(sod % 60), 2) \o <<"Z">>

\* ------------------------------------------------------------- row encoder

NoInt == I64(FALSE, <<0>>)

TextCell(s)       == [type |-> "Text",    s |-> s,    i |-> NoInt, frac |-> <<>>, b |-> <<>>]
IntegerCell(v)    == [type |-> "Integer", s |-> <<>>, i |-> v,     frac |-> <<>>, b |-> <<>>]
RealCell(v, frac) == [type |-> "Real",    s |-> <<>>, i |-> v,     frac |-> frac, b |-> <<>>]
BlobCell(bytes)   == [type |-> "Blob",    s |-> <<>>, i |-> NoInt, frac |-> <<>>, b |-> bytes]
NullCell          == [type |-> "Null",    s |-> <<>>, i |-> NoInt, frac |-> <<>>, b |-> <<>>]

\* f64::to_string of a finite value: the integral part, then a point and the
\* fractional digits only when there are any (1.0 prints as 1).
f64_to_string(v, frac) ==
    i64_to_string(v) \o
    (IF Len(frac) = 0 THEN <<>>
     ELSE <<".">> \o [k \in 1..Len(frac) |-> DigitChar[frac[k] + 1]])

RECURSIVE BlobItems(_)
BlobItems(bytes) ==
    IF Len(bytes) = 0 THEN <<>>
    ELSE IF Len(bytes) = 1 THEN NatDigits(bytes[1])
    ELSE NatDigits(bytes[1]) \o <<",", " ">> \o BlobItems(Tail(bytes))

\* format!("{:?}", &[u8]): the bracketed list of the bytes in decimal.
blob_debug(bytes) == <<"[">> \o BlobItems(bytes) \o <<"]">>

NullText == <<"n", "u", "l", "l">>

\* cell_txt with NULL rendered as the empty text.
cell_txt_null_empty(val) ==
    CASE val.type = "Text"    -> val.s
      [] val.type = "Integer" -> i64_to_string(val.i)
      [] val.type = "Real"    -> f64_to_string(val.i, val.frac)
      [] val.type = "Blob"    -> blob_debug(val.b)
      [] val.type = "Null"    -> <<>>

\* The match on val.data_type() (lines 81-87).
cell_txt(val) ==
    CASE val.type = "Text"    -> val.s
      [] val.type = "Integer" -> i64_to_string(val.i)
      [] val.type = "Real"    -> f64_to_string(val.i, val.frac)
      [] val.type = "Blob"    -> blob_debug(val.b)
      [] val.type = "Null"    -> NullText

\* Option<usize>: None, or Some(idx) with a zero-based index.
None == [some |-> FALSE, idx |-> 0]
Some(i) == [some |-> TRUE, idx |-> i]

RECURSIVE encode_from_lenient(_, _, _, _)
\* encode_from with a timestamp text that is no integer tolerated: an empty
\* derived field is written and the loop goes on.
encode_from_lenient(row, i, timestamp_position, column_count) ==
    IF i >= column_count THEN [status |-> "ok", fields |-> <<>>]
    ELSE
      LET txt  == cell_txt(row[i + 1])
          rest == encode_from_lenient(row, i + 1, timestamp_position, column_count)
      IN
      IF timestamp_position.some /\ timestamp_position.idx = i
      THEN LET ts == parse_i64(txt) IN
           IF ts.ok /\ ~timestamp_in_range(ts.val)
           THEN [status |-> "panic", fields |-> <<txt>>]
           ELSE [status |-> rest.status,
                 fields |-> <<txt, IF ts.ok THEN to_rfc3339_opts(ts.val) ELSE <<>> >>
                            \o rest.fields]
      ELSE [status |-> rest.status, fields |-> <<txt>> \o rest.fields]

RECURSIVE encode_from(_, _, _, _)
\* The loop over the columns of one row (lines 78-98), from column i on.
\* Yields how the loop ends and the fields handed to write_field before that:
\* the cell's text is written before the timestamp derivation is tried.
encode_from(row, i, timestamp_position, column_count) ==
    IF i >= column_count THEN [status |-> "ok", fields |-> <<>>]
    ELSE
      LET txt == cell_txt(row[i + 1]) IN
      IF timestamp_position.some /\ timestamp_position.idx = i
      THEN LET ts == parse_i64(txt) IN
           IF ~ts.ok THEN [status |-> "ParseError", fields |-> <<txt>>]
           ELSE IF ~timestamp_in_range(ts.val)
           THEN [status |-> "panic", fields |-> <<txt>>]
           ELSE LET rest == encode_from(row, i + 1, timestamp_position, column_count)
                IN  [status |-> rest.status,
                     fields |-> <<txt, to_rfc3339_opts(ts.val)>> \o rest.fields]
      ELSE LET rest == encode_from(row, i + 1, timestamp_position, column_count)
           IN  [status |-> rest.status, fields |-> <<txt>> \o rest.fields]

encode_row(row, timestamp_position, column_count) ==
    encode_from(row, 0, timestamp_position, column_count)

\* ------------------------------------------------------------ column schema

ID               == <<"i", "d">>
SM_TIMESTAMP     == <<"s", "m", "_", "t", "i", "m", "e", "s", "t", "a", "m", "p">>
TIMESTAMP        == <<"t", "i", "m", "e", "s", "t", "a", "m", "p">>
TIMESTAMP_PARSED == <<"t", "i", "m", "e", "s", "t", "a", "m", "p", "_",
                      "p", "a", "r", "s", "e", "d">>

is_timestamp_name(name) == name = SM_TIMESTAMP \/ name = TIMESTAMP

\* column_name.iter().position(..): the first matching column (line 65).
timestamp_position_of(column_name) ==
    IF \E k \in 1..Len(column_name) : is_timestamp_name(column_name[k])
    THEN Some((CHOOSE k \in 1..Len(column_name) :
                  /\ is_timestamp_name(column_name[k])
                  /\ \A j \in 1..(k - 1) : ~is_timestamp_name(column_name[j])) - 1)
    ELSE None

\* Vec::insert(index, element) with a zero-based index.
vec_insert(v, index, element) ==
    SubSeq(v, 1, index) \o <<element>> \o SubSeq(v, index + 1, Len(v))

\* header_of with the synthetic column inserted at the timestamp column's own
\* index, that is before it.
header_of_before(column_name) ==
    LET pos == timestamp_position_of(column_name)
    IN  IF pos.some THEN vec_insert(column_name, pos.idx, TIMESTAMP_PARSED)
        ELSE column_name

\* The header record (lines 63-69).
header_of(column_name) ==
    LET pos == timestamp_position_of(column_name)
    IN  IF pos.some THEN vec_insert(column_name, pos.idx + 1, TIMESTAMP_PARSED)
        ELSE column_name

\* -------------------------------------------------------------------- state

\* Names the tables of a database can have, and the order of the catalog.
AllTables    == {"t1", "t2"}
CatalogOrder == <<"t1", "sqlite_sequence", "t2">>

\* Rows of sqlite_master the catalog query's NOT LIKE 'sqlite_%' leaves out.
InternalNames == {"sqlite_sequence"}

\* Values of the -f and -l arguments.
DbPaths == {DB_DEFAULT_FILENAME, "other.sqlite"}
LogArgs == {"NONE", "wanr"}

VARIABLES
    argv,         \* the command line: [file, log]
    faults,       \* failures of the environment so far
    cli,          \* CommandArguments once parsed: [file, log, dir]
    rust_log,     \* the RUST_LOG environment variable
    db,           \* content of the database file at DB_DEFAULT_FILENAME
    dir_exists,   \* whether the output directory exists
    fs,           \* the file <dir>/<table>.csv of every table name
    pc,           \* position of main
    exit,         \* process exit status
    table_names,  \* Vec returned by get_tables
    joinhandles,  \* tables whose exporter was spawned, in spawn order
    joined,       \* number of join handles awaited so far
    task,         \* per table: the spawned unit running dump_table
    csv_writer,   \* per table: the csv::Writer and its buffer
    connections,  \* every Connection::open_with_flags call: [owner, path]
    log,          \* records written through the log crate
    stderr        \* tables whose JoinError was printed with eprintln!

vars == <<argv, faults, cli, rust_log, db, dir_exists, fs, pc, exit, table_names,
          joinhandles, joined, task, csv_writer, connections, log, stderr>>

NoFile    == [exists |-> FALSE, recs |-> <<>>, part |-> <<>>]
EmptyFile == [exists |-> TRUE,  recs |-> <<>>, part |-> <<>>]

\* A file left in the output directory by an earlier run.
StaleFile == [exists |-> TRUE, recs |-> << <<ID>>, <<<<"7">>>> >>, part |-> <<>>]

NoWriter == [open |-> FALSE, recs |-> <<>>, part |-> <<>>, first_field_count |-> -1]

\* faulted: whether a failure of the environment hit one of the unit's steps.
NoTask == [pc |-> "unspawned", result |-> "none", next_row |-> 0,
           conn |-> "none", drop_flush |-> "none", faulted |-> FALSE]

NoCli == [file |-> "", log |-> "", dir |-> ""]

LogRec(level, msg, table, cause) ==
    [level |-> level, msg |-> msg, table |-> table, cause |-> cause]

\* str::to_lowercase and str::to_uppercase on the argument values of LogArgs.
to_lowercase(s) ==
    CASE s = "NONE" -> "none" [] OTHER -> s

to_uppercase(s) ==
    CASE s = "wanr" -> "WANR" [] OTHER -> s

\* The accepted arm of the match in handle_cmd_args (line 33).
valid_loglevel(s) ==
    to_lowercase(s) \in {"error", "warn", "info", "debug", "trace", "none"}

\* The path create_db_connection_ro opens (line 120).
create_db_connection_ro(args) == DB_DEFAULT_FILENAME

\* sqlite_master rows the catalog query yields, in catalog order.
catalog_rows(database) ==
    SelectSeq(CatalogOrder,
              LAMBDA n : n \in DOMAIN database /\ n \notin InternalNames)

\* Sequence s without the elements at the indexes in bad.
RECURSIVE skip_rows(_, _, _)
skip_rows(s, bad, k) ==
    IF k > Len(s) THEN <<>>
    ELSE (IF k \in bad THEN <<>> ELSE <<s[k]>>) \o skip_rows(s, bad, k + 1)

\* create_new with create(true).truncate(true) in place of create_new(true).
create_new_truncate(file, io_ok) ==
    IF ~io_ok THEN [ok |-> FALSE, file |-> file]
    ELSE [ok |-> TRUE, file |-> EmptyFile]

\* OpenOptions::new().write(true).create_new(true).open(path): the existing
\* file is an error and is left as it is.
create_new(file, io_ok) ==
    IF file.exists \/ ~io_ok THEN [ok |-> FALSE, file |-> file]
    ELSE [ok |-> TRUE, file |-> EmptyFile]

\* flush_buf writing the buffered bytes at the start of the file.
flush_buf_prepend(file, w) ==
    [file EXCEPT !.recs = w.recs \o file.recs, !.part = w.part]

\* csv::Writer::flush_buf on success: the buffered bytes go to the file.
flush_buf(file, w) ==
    [file EXCEPT !.recs = file.recs \o w.recs, !.part = w.part]

\* The writer after a successful flush_buf.
cleared(w) == [w EXCEPT !.recs = <<>>, !.part = <<>>]

\* Drop of csv::Writer: one flush whose error is discarded.
drop_writer(file, w, io_ok) ==
    IF w.open /\ io_ok THEN flush_buf(file, w) ELSE file

\* csv::Writer::write_terminator: check_field_count against the first record
\* (flexible is off), then the record is complete.
write_terminator(w, fields) ==
    IF w.first_field_count >= 0 /\ w.first_field_count # Len(fields)
    THEN [ok |-> FALSE, w |-> [w EXCEPT !.part = fields]]
    ELSE [ok |-> TRUE,
          w  |-> [w EXCEPT !.recs = w.recs \o <<fields>>, !.part = <<>>,
                           !.first_field_count = Len(fields)]]

\* Whether a writer holds bytes a flush would write.
buffered(w) == w.open /\ (Len(w.recs) > 0 \/ Len(w.part) > 0)

\* ------------------------------------------------------------------- inputs

\* Every sequence over S of length at most n.
SeqUpTo(S, n) == UNION {[1..k -> S] : k \in 0..n}

I64_MAX == I64(FALSE, I64MaxMag)

\* Cells of a column named as a timestamp: their text is an in-range epoch,
\* no integer, an epoch out of range.
Cells == {IntegerCell(I64(FALSE, <<0>>)), TextCell(<<"x">>), IntegerCell(I64_MAX)}

\* Cells of the other columns.
OtherCells == {TextCell(<<"a">>)}

CellsFor(name) == IF name \in {TIMESTAMP, SM_TIMESTAMP} THEN Cells ELSE OtherCells

\* The rows a table with the columns c can hold.
RowsOf(c) ==
    {r \in [1..Len(c) -> Cells \cup OtherCells] : \A k \in 1..Len(c) : r[k] \in CellsFor(c[k])}

\* Tables with one of the given schemas and at most MaxRows rows.
TableDefs(schemas) ==
    UNION {[cols : {c}, rows : SeqUpTo(RowsOf(c), MaxRows)] : c \in schemas}

RECURSIVE TotalRows(_, _)
TotalRows(d, tables) ==
    IF tables = {} THEN 0
    ELSE LET t == CHOOSE x \in tables : TRUE
         IN  Len(d[t].rows) + TotalRows(d, tables \ {t})

\* Databases with the given tables and at most MaxRows rows in all.
DatabasesOf(tables, schemas) ==
    {d \in [tables -> TableDefs(schemas)] : TotalRows(d, tables) <= MaxRows}

\* Schemas of the concurrent runs, and of the runs with a single table.
Schemas == {<<ID>>, <<TIMESTAMP>>}
WideSchemas == {<<ID>>, <<TIMESTAMP>>, <<ID, SM_TIMESTAMP>>, <<TIMESTAMP, SM_TIMESTAMP>>,
                <<SM_TIMESTAMP, TIMESTAMP_PARSED>>, <<ID, TIMESTAMP, TIMESTAMP_PARSED>>}

\* Epoch values of the runs that exercise the encoder: 0, -1, the leap day
\* 2000-02-29, the last second of the year 9999, the first of the year 10000,
\* the last instant chrono can hold, and the second after it.
EpochValues ==
    {I64(FALSE, <<0>>), I64(TRUE, <<1>>), I64(FALSE, <<9,5,1,7,8,2,4,0,0>>),
     I64(FALSE, <<2,5,3,4,0,2,3,0,0,7,9,9>>), I64(FALSE, <<2,5,3,4,0,2,3,0,0,8,0,0>>),
     I64(FALSE, ChronoMaxMag), I64(FALSE, <<8,2,1,0,2,6,6,8,7,6,8,0,0>>)}

\* Cells of those runs: in a column named timestamp the epoch values and
\* NULL, in one named sm_timestamp the epochs 0 and first second of the year
\* 10000 and NULL, in another column a text and NULL.
EpochCells == {IntegerCell(v) : v \in EpochValues} \cup {NullCell}
SmEpochCells ==
    {IntegerCell(I64(FALSE, <<0>>)), IntegerCell(I64(FALSE, <<2,5,3,4,0,2,3,0,0,8,0,0>>)),
     NullCell}
PlainCells == {TextCell(<<"a">>), NullCell}

EpochRowsOf(c) ==
    {r \in [1..Len(c) -> EpochCells \cup PlainCells] :
       \A k \in 1..Len(c) :
         r[k] \in (IF c[k] = TIMESTAMP THEN EpochCells
                   ELSE IF c[k] = SM_TIMESTAMP THEN SmEpochCells
                   ELSE PlainCells)}

EpochSchemas == {<<ID>>, <<TIMESTAMP>>, <<ID, SM_TIMESTAMP>>}

\* Databases with the one table t1 holding such cells.
EpochDatabases ==
    UNION {{[t \in {"t1"} |-> [cols |-> c, rows |-> r]] :
              r \in SeqUpTo(EpochRowsOf(c), MaxRows)} : c \in EpochSchemas}

InitWith(databases, paths) ==
    /\ argv \in [file : paths, log : LogArgs]
    /\ db \in databases
    /\ dir_exists \in BOOLEAN
    /\ \E pre \in SUBSET (DOMAIN db) :
         /\ pre # {} => dir_exists
         /\ fs = [t \in AllTables |-> IF t \in pre THEN StaleFile ELSE NoFile]
    /\ faults = 0
    /\ cli = NoCli
    /\ rust_log = ""
    /\ pc = "handle_cmd_args"
    /\ exit = "running"
    /\ table_names = <<>>
    /\ joinhandles = <<>>
    /\ joined = 0
    /\ task = [t \in AllTables |-> NoTask]
    /\ csv_writer = [t \in AllTables |-> NoWriter]
    /\ connections = {}
    /\ log = {}
    /\ stderr = {}

\* Concurrent runs: two tables, the default database path.
Init == InitWith(DatabasesOf(AllTables, Schemas), {DB_DEFAULT_FILENAME})

\* Runs on a database with no user table or with one table of any of the
\* wider schemas, under every value of the -f argument.
InitOne ==
    InitWith(DatabasesOf({}, WideSchemas) \cup DatabasesOf({"t1"}, WideSchemas), DbPaths)

\* Runs that exercise the row encoder: one table, the default arguments.
InitCells == InitWith(EpochDatabases, {DB_DEFAULT_FILENAME})

\* Outcomes an operation of the environment can have: success, or a failure
\* while the run has failures left.
Outcomes(charged) == IF faults + charged < MaxFaults THEN BOOLEAN ELSE {TRUE}

Cost(ok) == IF ok THEN 0 ELSE 1

inputVars    == <<argv, db>>
mainVars     == <<pc, exit, table_names, joinhandles, joined, stderr>>
exporterVars == <<fs, task, csv_writer>>

\* ------------------------------------------------------------- coordinator

\* Fatal with the error only reported and the run going on.
Fatal_goes_on ==
    /\ pc' = "spawn_join"
    /\ exit' = exit

\* A `?` of main on an Err: the process ends with a failure status.
Fatal ==
    /\ pc' = "exited"
    /\ exit' = "failure"

\* handle_cmd_args (lines 28-42), reached from main (line 156).
HandleCmdArgs ==
    /\ pc = "handle_cmd_args"
    /\ cli' = [file |-> argv.file, log |-> argv.log, dir |-> DUMP_OUTPUT_DIR_DEFAULT]
    /\ IF valid_loglevel(argv.log)
       THEN /\ rust_log' = to_uppercase(argv.log)
            /\ pc' = "get_tables"
            /\ exit' = exit
       ELSE /\ rust_log' = "INFO"
            /\ Fatal
    /\ UNCHANGED <<inputVars, faults, dir_exists, table_names, joinhandles, joined,
                   stderr, exporterVars, connections, log>>

\* The catalog rows the loop of get_tables gets to see (lines 131-133): all
\* of them (cut = 0), or those before row cut, whose step failed: the
\* iterator yields that error once and is then exhausted.
rows_stepped(rows, cut) == IF cut = 0 THEN rows ELSE SubSeq(rows, 1, cut - 1)

\* GetTables with the `?` applied to every catalog row: a row error is fatal.
GetTables_strict ==
    /\ pc = "get_tables"
    /\ connections' = connections \cup
          {[owner |-> "get_tables", path |-> create_db_connection_ro(cli)]}
    /\ \E db_ok \in Outcomes(0) :
         IF ~db_ok
         THEN Fatal /\ faults' = faults + 1 /\ UNCHANGED <<table_names, log>>
         ELSE LET rows == catalog_rows(db) IN
              \E cut \in 0..Len(rows) :
              \E bad \in SUBSET (1..Len(rows_stepped(rows, cut))) :
                LET read  == rows_stepped(rows, cut)
                    n_err == Cardinality(bad) + (IF cut > 0 THEN 1 ELSE 0)
                IN
                /\ faults + n_err <= MaxFaults
                /\ faults' = faults + n_err
                /\ log' = log
                     \cup {LogRec("info", "Found table name", read[k], "") :
                             k \in (1..Len(read)) \ bad}
                     \cup (IF n_err > 0
                           THEN {LogRec("error", "Error while getting table name", "", "row")}
                           ELSE {})
                /\ IF n_err > 0
                   THEN Fatal /\ UNCHANGED table_names
                   ELSE /\ table_names' = read
                        /\ pc' = "create_dir_all"
                        /\ exit' = exit
    /\ UNCHANGED <<inputVars, cli, rust_log, dir_exists, joinhandles, joined, stderr,
                   exporterVars>>

\* get_tables (lines 126-151), reached from main (line 157).  A catalog row
\* fails in the conversion of its name (bad: the row is skipped) or in the
\* step that fetches it (cut: the iteration ends there).
GetTables ==
    /\ pc = "get_tables"
    /\ connections' = connections \cup
          {[owner |-> "get_tables", path |-> create_db_connection_ro(cli)]}
    /\ \E db_ok \in Outcomes(0) :
         IF ~db_ok
         THEN Fatal /\ faults' = faults + 1 /\ UNCHANGED <<table_names, log>>
         ELSE LET rows == catalog_rows(db) IN
              \E cut \in 0..Len(rows) :
              \E bad \in SUBSET (1..Len(rows_stepped(rows, cut))) :
              \E close_ok \in Outcomes(Cardinality(bad) + (IF cut > 0 THEN 1 ELSE 0)) :
                LET read  == rows_stepped(rows, cut)
                    n_err == Cardinality(bad) + (IF cut > 0 THEN 1 ELSE 0)
                IN
                /\ faults + n_err <= MaxFaults
                /\ faults' = faults + n_err + Cost(close_ok)
                /\ table_names' = skip_rows(read, bad, 1)
                /\ log' = log
                     \cup {LogRec("info", "Found table name", read[k], "") :
                             k \in (1..Len(read)) \ bad}
                     \cup (IF n_err > 0
                           THEN {LogRec("error", "Error while getting table name", "", "row")}
                           ELSE {})
                     \cup (IF close_ok THEN {}
                           ELSE {LogRec("error", "Error while closing db connection",
                                        "", "get_tables")})
                /\ pc' = "create_dir_all"
                /\ exit' = exit
    /\ UNCHANGED <<inputVars, cli, rust_log, dir_exists, joinhandles, joined, stderr,
                   exporterVars>>

\* tokio::fs::create_dir_all (lines 160-161): no error when the directory
\* is there already.
CreateDirAll ==
    /\ pc = "create_dir_all"
    /\ \E io_ok \in (IF dir_exists THEN {TRUE} ELSE Outcomes(0)) :
         /\ faults' = faults + Cost(io_ok)
         /\ IF io_ok
            THEN /\ dir_exists' = TRUE
                 /\ pc' = "spawn_join"
                 /\ exit' = exit
            ELSE Fatal /\ UNCHANGED dir_exists
    /\ UNCHANGED <<inputVars, cli, rust_log, table_names, joinhandles, joined, stderr,
                   exporterVars, connections, log>>

\* One iteration of the spawn loop (lines 165-177).
Spawn ==
    /\ pc = "spawn_join"
    /\ Len(joinhandles) < Len(table_names)
    /\ LET t == table_names[Len(joinhandles) + 1] IN
         /\ task' = [task EXCEPT ![t].pc = "start"]
         /\ joinhandles' = Append(joinhandles, t)
    /\ UNCHANGED <<inputVars, faults, cli, rust_log, dir_exists, fs, pc, exit,
                   table_names, joined, csv_writer, connections, log, stderr>>

\* join_ready of a join loop that does not wait for the unit.
join_ready_no_wait(t) == task[t].pc # "unspawned"

\* handle.await can return: the unit has finished.
join_ready(t) == task[t].pc = "finished"

\* Join of a coordinator that gives up on the first JoinError.
Join_propagates ==
    /\ pc = "spawn_join"
    /\ Len(joinhandles) = Len(table_names)
    /\ joined < Len(joinhandles)
    /\ LET t == joinhandles[joined + 1] IN
         /\ join_ready(t)
         /\ joined' = joined + 1
         /\ IF task[t].result = "panicked"
            THEN stderr' = stderr \cup {t} /\ pc' = "exited" /\ exit' = "failure"
            ELSE UNCHANGED <<stderr, pc, exit>>
    /\ UNCHANGED <<inputVars, faults, cli, rust_log, dir_exists, table_names,
                   joinhandles, exporterVars, connections, log>>

\* One iteration of the join loop (lines 179-186).
Join ==
    /\ pc = "spawn_join"
    /\ Len(joinhandles) = Len(table_names)
    /\ joined < Len(joinhandles)
    /\ LET t == joinhandles[joined + 1] IN
         /\ join_ready(t)
         /\ joined' = joined + 1
         /\ stderr' = IF task[t].result = "panicked" THEN stderr \cup {t} ELSE stderr
    /\ UNCHANGED <<inputVars, faults, cli, rust_log, dir_exists, pc, exit, table_names,
                   joinhandles, exporterVars, connections, log>>

\* Summary with the exit status taken from the outcomes of the tables.
Summary_propagates ==
    /\ pc = "spawn_join"
    /\ Len(joinhandles) = Len(table_names)
    /\ joined = Len(joinhandles)
    /\ log' = log \cup {LogRec("info", "Dump completed", cli.file, "")}
    /\ pc' = "exited"
    /\ exit' = IF \E t \in AllTables : task[t].result \notin {"none", "Ok"}
               THEN "failure" ELSE "success"
    /\ UNCHANGED <<inputVars, faults, cli, rust_log, dir_exists, table_names,
                   joinhandles, joined, stderr, exporterVars, connections>>

\* Summary of a run that treats an empty table list as an error.
Summary_fails_empty ==
    /\ pc = "spawn_join"
    /\ Len(joinhandles) = Len(table_names)
    /\ joined = Len(joinhandles)
    /\ log' = log \cup {LogRec("info", "Dump completed", cli.file, "")}
    /\ pc' = "exited"
    /\ exit' = IF table_names = <<>> THEN "failure" ELSE "success"
    /\ UNCHANGED <<inputVars, faults, cli, rust_log, dir_exists, table_names,
                   joinhandles, joined, stderr, exporterVars, connections>>

\* The final log record and the return of main (lines 188-193).
Summary ==
    /\ pc = "spawn_join"
    /\ Len(joinhandles) = Len(table_names)
    /\ joined = Len(joinhandles)
    /\ log' = log \cup {LogRec("info", "Dump completed", cli.file, "")}
    /\ pc' = "exited"
    /\ exit' = "success"
    /\ UNCHANGED <<inputVars, faults, cli, rust_log, dir_exists, table_names,
                   joinhandles, joined, stderr, exporterVars, connections>>

\* ---------------------------------------------------------------- exporter

\* What the spawned closure logs for an outcome of dump_table (lines 170-173).
\* A panic unwinds past the match and logs nothing here.
closure_log(t, result) ==
    IF result \in {"Ok", "panicked"} THEN {}
    ELSE {LogRec("error", "Error while handling table", t, result)}

\* EndTask with a runtime that aborts the sibling units when a unit fails.
EndTask_cancels_siblings(t, result, file, w, extra_log, charged) ==
    \E io_ok \in (IF buffered(w) THEN Outcomes(charged) ELSE {TRUE}) :
      /\ faults + charged <= MaxFaults
      /\ faults' = faults + charged + Cost(io_ok)
      /\ task' = [u \in AllTables |->
                    IF u = t
                    THEN [task[u] EXCEPT !.pc = "finished", !.result = result,
                                         !.faulted = charged + Cost(io_ok) > 0]
                    ELSE IF result # "Ok" /\ task[u].pc \notin {"unspawned", "finished"}
                    THEN [task[u] EXCEPT !.pc = "finished", !.result = "cancelled"]
                    ELSE task[u]]
      /\ fs' = [fs EXCEPT ![t] = drop_writer(file, w, io_ok)]
      /\ csv_writer' = [csv_writer EXCEPT ![t] = NoWriter]
      /\ log' = log \cup extra_log \cup closure_log(t, result)

\* EndTask of an exporter that removes its output file when it fails.
EndTask_rolls_back(t, result, file, w, extra_log, charged) ==
    \E io_ok \in (IF buffered(w) THEN Outcomes(charged) ELSE {TRUE}) :
      /\ faults + charged <= MaxFaults
      /\ faults' = faults + charged + Cost(io_ok)
      /\ task' = [task EXCEPT ![t] =
                    [@ EXCEPT !.pc = "finished", !.result = result,
                              !.conn = IF @ = "open" THEN "closed" ELSE @,
                              !.drop_flush = IF ~buffered(w) THEN "none"
                                             ELSE IF io_ok THEN "ok" ELSE "failed",
                              !.faulted = charged + Cost(io_ok) > 0]]
      /\ fs' = [fs EXCEPT ![t] = IF result \in {"Ok", "FileCreateError"}
                                 THEN drop_writer(file, w, io_ok) ELSE NoFile]
      /\ csv_writer' = [csv_writer EXCEPT ![t] = NoWriter]
      /\ log' = log \cup extra_log \cup closure_log(t, result)

\* The unit of table t ends with the given outcome: dump_table returns or
\* unwinds, the writer w (if any) is dropped and flushes, ignoring an error.
\* `charged` counts the failures of the environment that led here.
EndTask(t, result, file, w, extra_log, charged) ==
    \E io_ok \in (IF buffered(w) THEN Outcomes(charged) ELSE {TRUE}) :
      /\ faults + charged <= MaxFaults
      /\ faults' = faults + charged + Cost(io_ok)
      /\ task' = [task EXCEPT ![t] =
                    [@ EXCEPT !.pc = "finished", !.result = result,
                              !.conn = IF @ = "open" THEN "closed" ELSE @,
                              !.drop_flush = IF ~buffered(w) THEN "none"
                                             ELSE IF io_ok THEN "ok" ELSE "failed",
                              !.faulted = charged + Cost(io_ok) > 0]]
      /\ fs' = [fs EXCEPT ![t] = drop_writer(file, w, io_ok)]
      /\ csv_writer' = [csv_writer EXCEPT ![t] = NoWriter]
      /\ log' = log \cup extra_log \cup closure_log(t, result)

\* KeepGoing with one buffer shared by the writers: a flush writes out the
\* records of every open writer.
KeepGoing_shared_buffer(t, w, flushed, rows_done) ==
    /\ task' = [task EXCEPT ![t].pc = "streaming", ![t].next_row = rows_done]
    /\ IF flushed
       THEN /\ fs' = [u \in AllTables |->
                        IF u = t THEN flush_buf(fs[u], w)
                        ELSE IF csv_writer[u].open THEN flush_buf(fs[u], csv_writer[u])
                        ELSE fs[u]]
            /\ csv_writer' = [u \in AllTables |->
                                IF u = t THEN cleared(w)
                                ELSE IF csv_writer[u].open THEN cleared(csv_writer[u])
                                ELSE csv_writer[u]]
       ELSE /\ fs' = fs
            /\ csv_writer' = [csv_writer EXCEPT ![t] = w]
    /\ UNCHANGED <<faults, log>>

\* A record went into the writer w of table t and dump_table goes on: the
\* buffer kept it, or it filled up and was written to the file.
KeepGoing(t, w, flushed, rows_done) ==
    /\ task' = [task EXCEPT ![t].pc = "streaming", ![t].next_row = rows_done]
    /\ IF flushed
       THEN /\ fs' = [fs EXCEPT ![t] = flush_buf(@, w)]
            /\ csv_writer' = [csv_writer EXCEPT ![t] = cleared(w)]
       ELSE /\ fs' = fs
            /\ csv_writer' = [csv_writer EXCEPT ![t] = w]
    /\ UNCHANGED <<faults, log>>

\* busy_workers of a runtime whose workers are never given back.
busy_workers_leak ==
    {t \in AllTables : task[t].pc \in {"file_opened", "connected", "streaming", "finished"}}

\* The units that occupy a worker thread: dump_table has no await after the
\* file is open (lines 59-115), so from there to its end a unit keeps the
\* worker it was resumed on.
busy_workers ==
    {t \in AllTables : task[t].pc \in {"file_opened", "connected", "streaming"}}

\* Step 1: create the output file (lines 48-58), on a runtime with n worker
\* threads.  The open runs on the blocking pool; the unit is resumed with its
\* result once a worker is free.
CreateFileOn(t, n) ==
    /\ task[t].pc = "start"
    /\ Cardinality(busy_workers) < n
    /\ \E io_ok \in Outcomes(0) :
         LET r == create_new(fs[t], dir_exists /\ io_ok) IN
         IF r.ok
         THEN /\ fs' = [fs EXCEPT ![t] = r.file]
              /\ task' = [task EXCEPT ![t].pc = "file_opened"]
              /\ UNCHANGED <<faults, csv_writer, log>>
         ELSE EndTask(t, "FileCreateError", fs[t], NoWriter, {}, Cost(io_ok))
    /\ UNCHANGED <<inputVars, cli, rust_log, dir_exists, mainVars, connections>>

\* Step 1 on the program's runtime.
CreateFile(t) == CreateFileOn(t, worker_threads)

\* Step 2: open the exporter's own connection (line 59).
Connect(t) ==
    /\ task[t].pc = "file_opened"
    /\ connections' = connections \cup
          {[owner |-> t, path |-> create_db_connection_ro(cli)]}
    /\ \E db_ok \in Outcomes(0) :
         IF db_ok
         THEN /\ task' = [task EXCEPT ![t].pc = "connected", ![t].conn = "open"]
              /\ UNCHANGED <<faults, fs, csv_writer, log>>
         ELSE EndTask(t, "ConnectionError", fs[t], NoWriter, {}, 1)
    /\ UNCHANGED <<inputVars, cli, rust_log, dir_exists, mainVars>>

\* Steps 3 and 4: prepare the statement, write the header, start the query
\* (lines 60-75).
PrepareHeader(t) ==
    /\ task[t].pc = "connected"
    /\ LET w0 == [NoWriter EXCEPT !.open = TRUE]
           wt == write_terminator(w0, header_of(db[t].cols)).w
       IN  \E step \in {"prepare", "write", "query", "ok"}, flushed \in BOOLEAN :
             CASE step = "prepare" -> EndTask(t, "QueryError", fs[t], NoWriter, {}, 1)
               [] step = "write"   -> EndTask(t, "IoError", fs[t], wt, {}, 1)
               [] step = "query"   ->
                    IF flushed
                    THEN EndTask(t, "QueryError", flush_buf(fs[t], wt), cleared(wt), {}, 1)
                    ELSE EndTask(t, "QueryError", fs[t], wt, {}, 1)
               [] step = "ok"      -> KeepGoing(t, wt, flushed, 0)
    /\ UNCHANGED <<inputVars, cli, rust_log, dir_exists, mainVars, connections>>

\* Step 5, one iteration of the row loop (lines 77-100).
Row(t) ==
    /\ task[t].pc = "streaming"
    /\ task[t].next_row < Len(db[t].rows)
    /\ LET w    == csv_writer[t]
           cols == db[t].cols
           enc  == encode_row(db[t].rows[task[t].next_row + 1],
                              timestamp_position_of(cols), Len(cols))
           cut  == [w EXCEPT !.part = enc.fields]
           wt   == write_terminator(w, enc.fields)
       IN  \E step \in {"next", "write", "ok"}, flushed \in BOOLEAN :
             CASE step = "next"  -> EndTask(t, "QueryError", fs[t], w, {}, 1)
               [] step = "write" -> EndTask(t, "IoError", fs[t], cut, {}, 1)
               [] step = "ok"    ->
                    IF enc.status = "ParseError"
                    THEN EndTask(t, "ParseError", fs[t], cut, {}, 0)
                    ELSE IF enc.status = "panic"
                    THEN EndTask(t, "panicked", fs[t], cut, {}, 0)
                    ELSE IF ~wt.ok THEN EndTask(t, "CsvError", fs[t], wt.w, {}, 0)
                    ELSE KeepGoing(t, wt.w, flushed, task[t].next_row + 1)
    /\ UNCHANGED <<inputVars, cli, rust_log, dir_exists, mainVars, connections>>

\* Finish of an exporter that returns the error of a failed close.
Finish_close_fails(t) ==
    /\ task[t].pc = "streaming"
    /\ task[t].next_row = Len(db[t].rows)
    /\ \E close_ok \in Outcomes(0) :
         IF close_ok
         THEN EndTask(t, "Ok", fs[t], csv_writer[t],
                      {LogRec("info", "Table dump completed", t, "")}, 0)
         ELSE EndTask(t, "ConnectionError", fs[t], csv_writer[t],
                      {LogRec("error", "Error while closing db connection", t, "")}, 1)
    /\ UNCHANGED <<inputVars, cli, rust_log, dir_exists, mainVars, connections>>

\* Steps 6 and 7: rows.next() yields None, the connection is closed, the
\* completion is logged and Ok(()) returned (lines 102-115).
Finish(t) ==
    /\ task[t].pc = "streaming"
    /\ task[t].next_row = Len(db[t].rows)
    /\ \E close_ok \in Outcomes(0) :
         EndTask(t, "Ok", fs[t], csv_writer[t],
                 {LogRec("info", "Table dump completed", t, "")} \cup
                 (IF close_ok THEN {}
                  ELSE {LogRec("error", "Error while closing db connection", t, "")}),
                 Cost(close_ok))
    /\ UNCHANGED <<inputVars, cli, rust_log, dir_exists, mainVars, connections>>

Next ==
    \/ HandleCmdArgs
    \/ GetTables
    \/ CreateDirAll
    \/ Spawn
    \/ \E t \in AllTables : CreateFile(t)
    \/ \E t \in AllTables : Connect(t)
    \/ \E t \in AllTables : PrepareHeader(t)
    \/ \E t \in AllTables : Row(t)
    \/ \E t \in AllTables : Finish(t)
    \/ Join
    \/ Summary

Spec == Init /\ [][Next]_vars

SpecOne == InitOne /\ [][Next]_vars

SpecCells == InitCells /\ [][Next]_vars

\* The program on the scaled-down runtime.
NextSmall ==
    \/ HandleCmdArgs
    \/ GetTables
    \/ CreateDirAll
    \/ Spawn
    \/ \E t \in AllTables : CreateFileOn(t, SmallRuntime)
    \/ \E t \in AllTables : Connect(t)
    \/ \E t \in AllTables : PrepareHeader(t)
    \/ \E t \in AllTables : Row(t)
    \/ \E t \in AllTables : Finish(t)
    \/ Join
    \/ Summary

\* The steps of main, and those of the unit of table t on that runtime.
MainStep == HandleCmdArgs \/ GetTables \/ CreateDirAll \/ Spawn \/ Join \/ Summary

UnitStep(t) ==
    CreateFileOn(t, SmallRuntime) \/ Connect(t) \/ PrepareHeader(t) \/ Row(t) \/ Finish(t)

\* Every file and database operation returns and the scheduler is fair: main
\* and every unit take their next step when it stays possible.
Fairness == WF_vars(MainStep) /\ \A t \in AllTables : WF_vars(UnitStep(t))

\* Runs of two tables with one-column rows.
InitSmall == InitWith(DatabasesOf(AllTables, {<<ID>>}), {DB_DEFAULT_FILENAME})

SpecSmall == InitSmall /\ [][NextSmall]_vars /\ Fairness

\* ------------------------------------------------------------------ claims

Discovered == {table_names[k] : k \in 1..Len(table_names)}
Launched   == {joinhandles[k] : k \in 1..Len(joinhandles)}

\* The outcome of the column loop for row k (from 1) of table t.
encoded(t, k) ==
    encode_row(db[t].rows[k], timestamp_position_of(db[t].cols), Len(db[t].cols))

\* The header and one complete record for every row of table t.
CompleteFile(t) ==
    [exists |-> TRUE,
     recs   |-> <<header_of(db[t].cols)>> \o
                [k \in 1..Len(db[t].rows) |-> encoded(t, k).fields],
     part   |-> <<>>]

DataClean(t) == \A k \in 1..Len(db[t].rows) : encoded(t, k).status = "ok"

Failed(t) == task[t].pc = "finished" /\ task[t].result # "Ok"

CompletionLogged(t) == LogRec("info", "Table dump completed", t, "") \in log

\* The unit of t has finished, its file was created by it, no operation of
\* the environment failed in it and every row of the table encodes.
OwnStepsSucceed(t) ==
    /\ task[t].pc = "finished"
    /\ task[t].result # "FileCreateError"
    /\ ~task[t].faulted
    /\ DataClean(t)

\* C1: whatever happens to the exporters of the other tables, a table whose
\* own steps all succeed ends with the outcome Ok, a logged completion and a
\* file holding its header followed by a record for every one of its rows.
C1_ErrorIsolation ==
    \A t \in AllTables :
      OwnStepsSucceed(t) =>
        /\ task[t].result = "Ok"
        /\ CompletionLogged(t)
        /\ fs[t] = CompleteFile(t)

\* C1 witness: a table with rows was exported completely although the
\* exporter of the other table failed.
C1_Witness ==
    \E t \in AllTables, k \in AllTables :
      /\ t # k
      /\ Failed(k)
      /\ task[k].result \in {"ParseError", "QueryError", "IoError"}
      /\ OwnStepsSucceed(t)
      /\ Len(db[t].rows) >= 1
      /\ fs[t] = CompleteFile(t)

\* C2: an exporter that returned Ok and logged its completion left a file
\* with the header and a complete record for every source row.
C2_NoSilentLoss ==
    \A t \in AllTables :
      (task[t].result = "Ok" /\ CompletionLogged(t)) => fs[t] = CompleteFile(t)

\* C3: a file that exists when its table's exporter has not yet created it is
\* never changed; that exporter's first step ends it with FileCreateError
\* before it opened a connection; a file is left as it is once its exporter
\* failed to create it.  So a run over the files of an earlier run fails for
\* every table and changes none of them.
C3_NoOverwrite ==
    [][\A t \in AllTables :
         /\ (fs[t].exists /\ task[t].pc \in {"unspawned", "start"}) =>
              /\ fs'[t] = fs[t]
              /\ (task[t].pc = "start" /\ task'[t].pc # "start") =>
                   /\ task'[t].pc = "finished"
                   /\ task'[t].result = "FileCreateError"
                   /\ \A c \in connections' : c.owner # t
         /\ task[t].result = "FileCreateError" => fs'[t] = fs[t]]_vars

\* C3 witness: the run over an earlier run's files has ended, both tables
\* failed at the creation of their files, which are as they were, and no
\* exporter opened a connection.
C3_Witness ==
    /\ exit = "success"
    /\ Len(table_names) = 2
    /\ \A t \in AllTables :
         /\ task[t].result = "FileCreateError"
         /\ ~task[t].faulted
         /\ fs[t] = StaleFile
    /\ \A c \in connections : c.owner = "get_tables"

SummaryLogged == \E r \in log : r.msg = "Dump completed"

\* C4: once argument handling, discovery and the creation of the output
\* directory have succeeded, the run can only end with the summary logged and
\* a success status, whatever the outcomes of the tables.
C4_ExitStatus ==
    [][pc = "spawn_join" =>
         \/ pc' = "spawn_join" /\ exit' = "running"
         \/ pc' = "exited" /\ exit' = "success" /\ SummaryLogged']_vars

\* C4 witness: a run ended with a success status although one exporter
\* panicked and the other returned an error.
C4_Witness ==
    /\ pc = "exited"
    /\ exit = "success"
    /\ SummaryLogged
    /\ \E t \in AllTables, u \in AllTables :
         /\ task[t].result = "panicked"
         /\ task[u].result \in {"ParseError", "FileCreateError", "QueryError"}

\* C5: an invalid log level, a failed discovery and a failed creation of the
\* output directory each end the run with a failure status; a run that ended
\* takes no further step, and one that ended with a failure status has
\* launched no exporter, opened no exporter connection and created or changed
\* no file.
C5_FatalBeforeWork ==
    [][/\ exit = "running"
       /\ (pc = "handle_cmd_args" /\ ~valid_loglevel(argv.log)) => exit' = "failure"
       /\ (pc = "get_tables" /\ pc' # "create_dir_all") => exit' = "failure"
       /\ (pc = "create_dir_all" /\ ~dir_exists') => exit' = "failure"
       /\ exit' = "failure" =>
            /\ pc' = "exited"
            /\ joinhandles' = <<>>
            /\ \A t \in AllTables :
                 /\ task'[t] = NoTask
                 /\ csv_writer'[t] = NoWriter
                 /\ fs'[t] \in {NoFile, StaleFile}
                 /\ fs'[t] = fs[t]
            /\ \A c \in connections' : c.owner = "get_tables"]_vars

\* C5 witness: a run ended with a failure status because discovery or the
\* creation of the directory failed, on a database with rows to export.
C5_Witness ==
    /\ exit = "failure"
    /\ valid_loglevel(argv.log)
    /\ faults = 1
    /\ \E t \in AllTables : Len(db[t].rows) >= 1 /\ fs[t] = NoFile

\* C6: the handles awaited so far belong to finished units; the join loop
\* starts after one unit was spawned for every discovered name; units are
\* exactly the launched names; and when the run has succeeded every discovered
\* table's unit has finished with an outcome of its own.
C6_JoinCompleteness ==
    /\ \A k \in 1..joined : task[joinhandles[k]].pc = "finished"
    /\ joined > 0 => joinhandles = table_names
    /\ \A t \in AllTables : task[t].pc # "unspawned" <=> t \in Launched
    /\ Cardinality(Launched) = Len(joinhandles)
    /\ exit = "success" =>
         /\ joinhandles = table_names
         /\ joined = Len(joinhandles)
         /\ \A t \in Discovered :
              /\ task[t].pc = "finished"
              /\ task[t].result \in {"Ok", "FileCreateError", "ConnectionError",
                                     "QueryError", "IoError", "ParseError", "panicked"}

\* C6 witness: the summary was logged after two units finished, one of them
\* with an error and the other with all its rows exported.
C6_Witness ==
    /\ exit = "success"
    /\ SummaryLogged
    /\ Len(joinhandles) = 2
    /\ \E t \in AllTables, u \in AllTables :
         /\ Failed(t)
         /\ task[u].result = "Ok"
         /\ Len(db[u].rows) >= 1
         /\ fs[u] = CompleteFile(u)

\* The complete records of table t's own output that exist, in the file or
\* in the writer's buffer.
Written(t) == fs[t].recs \o csv_writer[t].recs

\* The file of t is the one its exporter created.
OwnOutput(t) ==
    \/ task[t].pc \in {"file_opened", "connected", "streaming"}
    \/ task[t].pc = "finished" /\ task[t].result # "FileCreateError"

HasTs(t) == \E k \in 1..Len(db[t].cols) : db[t].cols[k] \in {SM_TIMESTAMP, TIMESTAMP}

\* Index (from 1) of the designated timestamp column: the first so named.
FirstTs(t) ==
    CHOOSE k \in 1..Len(db[t].cols) :
      /\ db[t].cols[k] \in {SM_TIMESTAMP, TIMESTAMP}
      /\ \A j \in 1..(k - 1) : db[t].cols[j] \notin {SM_TIMESTAMP, TIMESTAMP}

Count(seq, x) == Cardinality({j \in 1..Len(seq) : seq[j] = x})

\* The RFC 3339 field derived from the text of a timestamp field.
Derived(txt) == to_rfc3339_opts(parse_i64(txt).val)

\* Every data record has as many fields as the header, and with a timestamp
\* column its derived field right after the raw one.
RecordsShaped(t, recs) ==
    \A j \in 2..Len(recs) :
      /\ Len(recs[j]) = Len(recs[1])
      /\ HasTs(t) =>
           /\ parse_i64(recs[j][FirstTs(t)]).ok
           /\ recs[j][FirstTs(t) + 1] = Derived(recs[j][FirstTs(t)])

\* C7 as stated: with a timestamp column the header holds exactly one
\* timestamp_parsed field, right after the designated column, and every
\* complete record has the header's field count with the derived field at that
\* position; without one, header and records have the source column count.
C7_ShapeAsStated ==
    \A t \in AllTables :
      (OwnOutput(t) /\ Len(Written(t)) >= 1) =>
        LET recs == Written(t)
            cols == db[t].cols
        IN  /\ RecordsShaped(t, recs)
            /\ IF HasTs(t)
               THEN /\ Count(recs[1], TIMESTAMP_PARSED) = 1
                    /\ recs[1][FirstTs(t)] = cols[FirstTs(t)]
                    /\ recs[1][FirstTs(t) + 1] = TIMESTAMP_PARSED
               ELSE Len(recs[1]) = Len(cols)

\* C7 amended: with a timestamp column the header is the source columns with
\* one timestamp_parsed field inserted right after the designated (first)
\* timestamp column, so it holds one field more than the source has columns
\* and one timestamp_parsed field more than the source has columns of that
\* name; every complete record has the header's field count with the derived
\* field at that position; without a timestamp column the header is the source
\* columns and every record has their count.
C7_Shape ==
    \A t \in AllTables :
      (OwnOutput(t) /\ Len(Written(t)) >= 1) =>
        LET recs == Written(t)
            cols == db[t].cols
            h    == recs[1]
        IN  /\ RecordsShaped(t, recs)
            /\ IF HasTs(t)
               THEN /\ Len(h) = Len(cols) + 1
                    /\ Count(h, TIMESTAMP_PARSED) = Count(cols, TIMESTAMP_PARSED) + 1
                    /\ \A j \in 1..FirstTs(t) : h[j] = cols[j]
                    /\ h[FirstTs(t) + 1] = TIMESTAMP_PARSED
                    /\ \A j \in (FirstTs(t) + 1)..Len(cols) : h[j + 1] = cols[j]
               ELSE h = cols

\* C7 witness: a table with a timestamp column and a column of its own named
\* timestamp_parsed was exported with all its rows.
C7_Witness ==
    \E t \in AllTables :
      /\ task[t].result = "Ok"
      /\ HasTs(t)
      /\ Count(db[t].cols, TIMESTAMP_PARSED) = 1
      /\ Len(db[t].rows) = MaxRows
      /\ fs[t] = CompleteFile(t)

\* The designated timestamp cell of row k of table t.
TsCell(t, k) == db[t].rows[k][FirstTs(t)]

\* Row k of t has a timestamp text that is no integer, or an integer outside
\* the calendar range.
BadTs(t, k) ==
    LET ts == parse_i64(cell_txt(TsCell(t, k)))
    IN  ~ts.ok \/ ~timestamp_in_range(ts.val)

HasBadTs(t) == HasTs(t) /\ \E k \in 1..Len(db[t].rows) : BadTs(t, k)

\* Index (from 1) of the first row of t with such a timestamp.
FirstBad(t) ==
    CHOOSE k \in 1..Len(db[t].rows) :
      BadTs(t, k) /\ \A j \in 1..(k - 1) : ~BadTs(t, j)

\* The texts of the fields of row k of t up to its raw timestamp.
FieldsUpToTs(t, k) == [j \in 1..FirstTs(t) |-> cell_txt(db[t].rows[k][j])]

\* The unit of t finished without a failure of the environment, and the first
\* bad timestamp is a text that is no integer.
ParseFailure(t) ==
    /\ task[t].pc = "finished"
    /\ task[t].result # "FileCreateError"
    /\ ~task[t].faulted
    /\ HasBadTs(t)
    /\ ~parse_i64(cell_txt(TsCell(t, FirstBad(t)))).ok

\* C8: when the operations of the environment succeed and a row's timestamp
\* text is no integer, the table's export fails with ParseError, logged with
\* the table name; the file holds the header and the records of exactly the
\* rows before that row, then the fields of that row written before the parse,
\* and no record of a later row; a table whose own steps succeed is still
\* exported completely.
C8_ParseErrorAborts ==
    \A t \in AllTables :
      ParseFailure(t) =>
        /\ task[t].result = "ParseError"
        /\ LogRec("error", "Error while handling table", t, "ParseError") \in log
        /\ ~CompletionLogged(t)
        /\ task[t].next_row = FirstBad(t) - 1
        /\ fs[t].recs = <<header_of(db[t].cols)>> \o
                        [k \in 1..(FirstBad(t) - 1) |-> encoded(t, k).fields]
        /\ fs[t].part = FieldsUpToTs(t, FirstBad(t))
        /\ \A u \in AllTables \ {t} :
             OwnStepsSucceed(u) => task[u].result = "Ok" /\ fs[u] = CompleteFile(u)

\* C8 witness: the second of two rows failed to parse, the first row is in
\* the file, and the other table was exported successfully.
C8_Witness ==
    \E t \in AllTables, u \in AllTables :
      /\ t # u
      /\ ParseFailure(t)
      /\ FirstBad(t) = 2
      /\ Len(fs[t].recs) = 2
      /\ task[u].result = "Ok"
      /\ fs[u] = CompleteFile(u)

\* The unit of t finished without a failure of the environment, and the first
\* bad timestamp is an integer outside the calendar range.
OutOfRangeFailure(t) ==
    /\ task[t].pc = "finished"
    /\ task[t].result # "FileCreateError"
    /\ ~task[t].faulted
    /\ HasBadTs(t)
    /\ TsCell(t, FirstBad(t)).type = "Integer"
    /\ ~timestamp_in_range(TsCell(t, FirstBad(t)).i)

\* C9: an integer timestamp outside the calendar range makes the exporter
\* return ParseError, which is logged with the table name.
C9_OutOfRangeIsError ==
    \A t \in AllTables :
      OutOfRangeFailure(t) =>
        /\ task[t].result = "ParseError"
        /\ LogRec("error", "Error while handling table", t, "ParseError") \in log

\* C10: every connection opened during the run targets the database path of
\* the -f argument.
C10_ConfiguredPath == \A c \in connections : c.path = cli.file

IsPrefix(s, t) == Len(s) <= Len(t) /\ \A j \in 1..Len(s) : s[j] = t[j]

\* The header of t followed by the record of every row of t in the order the
\* query yields them.
Expected(t) ==
    <<header_of(db[t].cols)>> \o [k \in 1..Len(db[t].rows) |-> encoded(t, k).fields]

\* C11: at every point of an export, also one cut short by a failure, the
\* complete records written for a table, those in its file followed by those
\* still in the writer's buffer, are the header first and then the record of
\* the i-th row the query yields at place i of the body, with no more records
\* than rows; while the exporter streams, it has written the header and one
\* record per row fetched.
C11_RecordOrder ==
    \A t \in AllTables :
      OwnOutput(t) =>
        LET recs == Written(t) IN
        /\ Len(recs) <= Len(db[t].rows) + 1
        /\ \A j \in 1..Len(recs) :
             recs[j] = IF j = 1 THEN header_of(db[t].cols) ELSE encoded(t, j - 1).fields
        /\ task[t].pc = "streaming" => Len(recs) = task[t].next_row + 1

\* C11 witness: an export of two rows was cut short by a failure after the
\* header and the first row's record had reached the file in separate writes.
C11_Witness ==
    \E t \in AllTables :
      /\ Failed(t)
      /\ task[t].result \in {"ParseError", "QueryError", "IoError"}
      /\ Len(db[t].rows) = 2
      /\ fs[t].recs = <<header_of(db[t].cols), encoded(t, 1).fields>>

\* C12: while the table list is empty no step launches an exporter, changes a
\* file, opens an exporter connection or records an outcome of a table; and
\* once discovery has returned the empty list and the output directory is
\* there, the only step left is the summary, which ends the run with a
\* success status.
C12_EmptyDiscovery ==
    [][(table_names' = <<>> /\ pc # "exited") =>
         /\ fs' = fs
         /\ task' = [t \in AllTables |-> NoTask]
         /\ csv_writer' = [t \in AllTables |-> NoWriter]
         /\ joinhandles' = <<>>
         /\ stderr' = {}
         /\ \A c \in connections' : c.owner = "get_tables"
         /\ \A r \in log' : r.msg \notin {"Error while handling table", "Table dump completed"}
         /\ pc = "spawn_join" =>
              /\ pc' = "exited"
              /\ exit' = "success"
              /\ SummaryLogged']_vars

\* C12 witness: a run over a database without user tables has ended with a
\* success status and the summary, and no file exists.
C12_Witness ==
    /\ DOMAIN db = {}
    /\ table_names = <<>>
    /\ pc = "exited"
    /\ exit = "success"
    /\ SummaryLogged
    /\ \A t \in AllTables : fs[t] = NoFile /\ task[t] = NoTask

\* The shape of an RFC 3339 date-time in UTC with whole seconds:
\* YYYY-MM-DDThh:mm:ssZ.
IsRfc3339Secs(f) ==
    /\ Len(f) = 20
    /\ \A j \in {1, 2, 3, 4, 6, 7, 9, 10, 12, 13, 15, 16, 18, 19} : IsDigitChar(f[j])
    /\ f[5] = "-" /\ f[8] = "-" /\ f[11] = "T"
    /\ f[14] = ":" /\ f[17] = ":" /\ f[20] = "Z"

EpochZeroText ==
    <<"1", "9", "7", "0", "-", "0", "1", "-", "0", "1", "T",
      "0", "0", ":", "0", "0", ":", "0", "0", "Z">>

\* C13: in every complete record of a row whose timestamp cell is an integer
\* within the calendar range, the field at the timestamp position is the
\* decimal text of the value and the next field is an RFC 3339 UTC date-time
\* with whole seconds and a trailing Z; for the value 0 the two fields are 0
\* and 1970-01-01T00:00:00Z.
C13_DerivedField ==
    \A t \in AllTables :
      (OwnOutput(t) /\ HasTs(t)) =>
        \A j \in 2..Len(Written(t)) :
          LET rec == Written(t)[j]
              e   == TsCell(t, j - 1)
              p   == FirstTs(t)
          IN  (e.type = "Integer" /\ timestamp_in_range(e.i)) =>
                /\ rec[p] = i64_to_string(e.i)
                /\ IsRfc3339Secs(rec[p + 1])
                /\ e.i = I64(FALSE, <<0>>) =>
                     rec[p] = <<"0">> /\ rec[p + 1] = EpochZeroText

Panicked(t) == task[t].result = "panicked"

\* C14: the step in which a unit panics changes no other unit, no other
\* table's file or writer and not the coordinator; the join of a panicked unit
\* prints its error and the coordinator goes on; a table whose own steps
\* succeed is exported completely whichever units panicked; and a run with a
\* panicked unit that has ended has awaited every launched unit, printed the
\* error of each panicked one, logged the summary and ended with success.
C14_PanicConfined ==
    /\ [][/\ \A t \in AllTables :
               (Panicked(t)' /\ ~Panicked(t)) =>
                 /\ pc' = pc /\ exit' = exit /\ joined' = joined
                 /\ \A u \in AllTables \ {t} :
                      task'[u] = task[u] /\ fs'[u] = fs[u] /\ csv_writer'[u] = csv_writer[u]
          /\ \A t \in AllTables :
               (Panicked(t) /\ t \in stderr' /\ t \notin stderr) =>
                 pc' = "spawn_join" /\ exit' = "running" /\ joined' = joined + 1
         ]_vars
    /\ []((\E t \in AllTables : Panicked(t)) =>
            /\ \A u \in AllTables :
                 OwnStepsSucceed(u) => task[u].result = "Ok" /\ fs[u] = CompleteFile(u)
            /\ pc = "exited" =>
                 /\ exit = "success"
                 /\ SummaryLogged
                 /\ joined = Len(joinhandles)
                 /\ \A u \in Launched : task[u].pc = "finished"
                 /\ \A u \in AllTables : Panicked(u) => u \in stderr)

\* C14 witness: the first unit awaited had panicked, the other one exported
\* its row completely, and the run ended with success and the summary.
C14_Witness ==
    /\ pc = "exited"
    /\ exit = "success"
    /\ SummaryLogged
    /\ Len(joinhandles) = 2
    /\ Panicked(joinhandles[1])
    /\ joinhandles[1] \in stderr
    /\ task[joinhandles[2]].result = "Ok"
    /\ Len(db[joinhandles[2]].rows) >= 1
    /\ fs[joinhandles[2]] = CompleteFile(joinhandles[2])

\* The steps of dump_table in their order, and the outcomes a failure at each
\* of them gives.
NextStep(p) ==
    CASE p = "unspawned"   -> {"start"}
      [] p = "start"       -> {"file_opened"}
      [] p = "file_opened" -> {"connected"}
      [] p = "connected"   -> {"streaming"}
      [] p = "streaming"   -> {"streaming"}
      [] OTHER             -> {}

FailuresAt(p) ==
    CASE p = "start"       -> {"FileCreateError"}
      [] p = "file_opened" -> {"ConnectionError"}
      [] p = "connected"   -> {"QueryError", "IoError"}
      [] p = "streaming"   -> {"QueryError", "IoError", "ParseError", "CsvError", "panicked"}
      [] OTHER             -> {}

\* Every step of a unit moves it to the next step of the fixed order or ends
\* it; the row loop goes one row forward; success is the end of the row loop
\* after the last row only; a finished unit, its file and its writer do not
\* change any more; a file that exists is never removed or shortened.
StepOrder ==
    \A t \in AllTables :
      /\ task'[t].pc # task[t].pc \/ task'[t].next_row # task[t].next_row =>
           \/ /\ task'[t].pc \in NextStep(task[t].pc)
              /\ task'[t].result = "none"
              /\ task'[t].next_row =
                   IF task[t].pc = "streaming" THEN task[t].next_row + 1 ELSE 0
              /\ task'[t].next_row <= Len(db[t].rows)
           \/ /\ task'[t].pc = "finished"
              /\ task'[t].next_row = task[t].next_row
              /\ \/ task'[t].result \in FailuresAt(task[t].pc)
                 \/ /\ task'[t].result = "Ok"
                    /\ task[t].pc = "streaming"
                    /\ task[t].next_row = Len(db[t].rows)
      /\ task[t].pc = "finished" =>
           task'[t] = task[t] /\ fs'[t] = fs[t] /\ csv_writer'[t] = csv_writer[t]
      /\ fs[t].exists => fs'[t].exists /\ IsPrefix(fs[t].recs, fs'[t].recs)

\* What the rows fetched so far and the header amount to.
WrittenSoFar(t) == SubSeq(Expected(t), 1, task[t].next_row + 1)

\* C15 as stated: the steps follow the fixed order without retry or step
\* after a failure, the file is never removed or shortened, and a connection
\* or query failure leaves an empty file behind.
C15_StepsAsStated ==
    /\ [][StepOrder]_vars
    /\ [](\A t \in AllTables :
            (task[t].pc = "finished" /\ task[t].result \in {"ConnectionError", "QueryError"})
              => fs[t] = EmptyFile)

\* C15 amended: the steps follow the fixed order without retry or step after
\* a failure and the file is never removed or shortened; a connection failure
\* leaves an empty file; a query failure leaves a file holding no more than
\* the header and the records of the rows fetched before it, exactly those
\* when the writer's last flush wrote them, exactly nothing or the header
\* alone when it happened before the first row was asked for; any failure
\* after the creation of the file leaves the file in place.
C15_Steps ==
    /\ [][StepOrder]_vars
    /\ [](\A t \in AllTables :
            (task[t].pc = "finished" /\ task[t].result \notin {"Ok", "FileCreateError"}) =>
              /\ fs[t].exists
              /\ IsPrefix(fs[t].recs, Expected(t))
              /\ task[t].result = "ConnectionError" => fs[t] = EmptyFile
              /\ task[t].result = "QueryError" =>
                   /\ fs[t].part = <<>>
                   /\ IsPrefix(fs[t].recs, WrittenSoFar(t))
                   /\ task[t].drop_flush = "ok" => fs[t].recs = WrittenSoFar(t)
                   /\ task[t].next_row = 0 =>
                        fs[t].recs \in {<<>>, <<header_of(db[t].cols)>>})

\* C15 witness: a query failure after the first of two rows was fetched left
\* the header and that row's record in the file.
C15_Witness ==
    \E t \in AllTables :
      /\ task[t].pc = "finished"
      /\ task[t].result = "QueryError"
      /\ Len(db[t].rows) = 2
      /\ task[t].next_row = 1
      /\ fs[t].recs = <<header_of(db[t].cols), encoded(t, 1).fields>>

CloseFailed(t) == LogRec("error", "Error while closing db connection", t, "") \in log

DiscoveryCloseFailed ==
    LogRec("error", "Error while closing db connection", "", "get_tables") \in log

FoundNames == {r.table : r \in {x \in log : x.msg = "Found table name"}}

RowErrorLogged == \E r \in log : r.msg = "Error while getting table name"

\* C16: an exporter whose close of the connection failed still returns Ok and
\* logs its completion, no error of the table is logged, the step of the
\* failed close removes nothing from the file, and the file holds the header
\* and every row's record unless the writer's last flush failed; a failed
\* close at the end of discovery leaves the run going with the table names
\* that were read, all catalog names when no catalog row failed.
C16_CloseOnlyLogged ==
    /\ [](\A t \in AllTables :
            CloseFailed(t) =>
              /\ task[t].pc = "finished"
              /\ task[t].result = "Ok"
              /\ task[t].next_row = Len(db[t].rows)
              /\ CompletionLogged(t)
              /\ \A r \in log : ~(r.msg = "Error while handling table" /\ r.table = t)
              /\ IsPrefix(fs[t].recs, Expected(t))
              /\ task[t].drop_flush # "failed" => fs[t] = CompleteFile(t))
    /\ [][/\ \A t \in AllTables :
               (CloseFailed(t)' /\ ~CloseFailed(t)) => IsPrefix(fs[t].recs, fs'[t].recs)
          /\ (DiscoveryCloseFailed' /\ ~DiscoveryCloseFailed) =>
               /\ pc' = "create_dir_all"
               /\ exit' = "running"
               /\ {table_names'[k] : k \in 1..Len(table_names')} = FoundNames'
               /\ ~RowErrorLogged' => table_names' = catalog_rows(db)
         ]_vars

\* C16 witness: the close failed after a row was streamed, the exporter
\* returned Ok and the file is complete.
C16_Witness ==
    \E t \in AllTables :
      /\ CloseFailed(t)
      /\ task[t].result = "Ok"
      /\ Len(db[t].rows) >= 1
      /\ fs[t] = CompleteFile(t)

\* Position of x in the sequence seq of distinct elements.
PosIn(seq, x) == CHOOSE k \in 1..Len(seq) : seq[k] = x

\* s holds elements of t, each once, in the order they have in t.
InOrderOf(s, t) ==
    /\ \A i \in 1..Len(s) : \E k \in 1..Len(t) : t[k] = s[i]
    /\ \A i \in 1..Len(s), j \in 1..Len(s) : i < j => PosIn(t, s[i]) < PosIn(t, s[j])

\* C17: the discovery step either fails before any catalog row was read, with
\* no row error logged, or goes on with a list that holds exactly the names
\* logged as found, in catalog order and without the internal tables; the
\* list is short of a catalog name only if a row error was logged, and a row
\* error never ends the run.
C17_DiscoveryTolerant ==
    [][pc = "get_tables" =>
         \/ /\ pc' = "exited" /\ exit' = "failure"
            /\ table_names' = <<>>
            /\ FoundNames' = {}
            /\ ~RowErrorLogged'
         \/ /\ pc' = "create_dir_all" /\ exit' = "running"
            /\ InOrderOf(table_names', catalog_rows(db))
            /\ {table_names'[k] : k \in 1..Len(table_names')} = FoundNames'
            /\ \A k \in 1..Len(table_names') : table_names'[k] \notin InternalNames
            /\ ~RowErrorLogged' => table_names' = catalog_rows(db)
      ]_vars

\* C17 witness: the catalog row of t1 could not be read, discovery returned
\* t2 alone, and t2 was exported in a run that ended with success.
C17_Witness ==
    /\ RowErrorLogged
    /\ table_names = <<"t2">>
    /\ task["t1"] = NoTask
    /\ task["t2"].result = "Ok"
    /\ pc = "exited"
    /\ exit = "success"

\* The step is one of the exporter of table t.
StepOf(t) == task[t].pc # "unspawned" /\ task'[t] # task[t]

\* C18: a step of the exporter of a table leaves the file, the writer and the
\* unit (its connection included) of every other table as they were and opens
\* no connection but its own; a table's file and writer change only in a step
\* of that table's exporter; every exporter that got past its connect step
\* holds a connection it opened itself.
C18_Ownership ==
    /\ [][/\ \A t \in AllTables :
               StepOf(t) =>
                 /\ \A u \in AllTables \ {t} :
                      fs'[u] = fs[u] /\ csv_writer'[u] = csv_writer[u] /\ task'[u] = task[u]
                 /\ \A c \in connections' \ connections : c.owner = t
          /\ \A u \in AllTables :
               (fs'[u] # fs[u] \/ csv_writer'[u] # csv_writer[u]) => StepOf(u)
         ]_vars
    /\ [](\A t \in AllTables :
            task[t].conn # "none" => \E c \in connections : c.owner = t)

\* C18 witness: the exporters of both tables are in their row loops at the
\* same time, each with its own connection open and a row written.
C18_Witness ==
    /\ \A t \in AllTables :
         /\ task[t].pc = "streaming"
         /\ task[t].next_row = 1
         /\ task[t].conn = "open"
         /\ \E c \in connections : c.owner = t
         /\ Len(Written(t)) = 2

\* C19: with fewer worker threads than tables, fair scheduling and operations
\* that return, every run ends; every spawned unit reaches its terminal
\* state; and once the units are being spawned the coordinator gets to log
\* the summary and end the run.
C19_Termination ==
    /\ <>(pc = "exited")
    /\ \A t \in AllTables : (task[t].pc = "start") ~> (task[t].pc = "finished")
    /\ (pc = "spawn_join") ~> (pc = "exited" /\ SummaryLogged /\ exit = "success")

\* C19 witness: every worker thread is held by a unit in its row loop while
\* another spawned unit waits for one.
C19_Witness ==
    \E t \in AllTables, u \in AllTables :
      /\ Cardinality(busy_workers) = SmallRuntime
      /\ task[t].pc = "streaming"
      /\ Len(db[t].rows) >= 1
      /\ task[u].pc = "start"

\* Position in a record of the field of source column c (from 1).
OutPos(t, c) == IF HasTs(t) /\ c > FirstTs(t) THEN c + 1 ELSE c

\* C20: in every complete record the field of a NULL cell is the text null;
\* when the first bad timestamp of a table is a NULL cell and the operations
\* of the environment succeed, the export ends with a logged ParseError at
\* that row: the file holds the header and the records of the rows before it,
\* then that row's fields up to the timestamp field, which is null, and no
\* derived field and no later row.
C20_NullCells ==
    \A t \in AllTables :
      /\ OwnOutput(t) =>
           \A j \in 2..Len(Written(t)), c \in 1..Len(db[t].cols) :
             db[t].rows[j - 1][c].type = "Null" => Written(t)[j][OutPos(t, c)] = NullText
      /\ (/\ task[t].pc = "finished"
          /\ task[t].result # "FileCreateError"
          /\ ~task[t].faulted
          /\ HasBadTs(t)
          /\ TsCell(t, FirstBad(t)).type = "Null") =>
           /\ task[t].result = "ParseError"
           /\ LogRec("error", "Error while handling table", t, "ParseError") \in log
           /\ task[t].next_row = FirstBad(t) - 1
           /\ Len(fs[t].recs) = FirstBad(t)
           /\ IsPrefix(fs[t].recs, Expected(t))
           /\ Len(fs[t].part) = FirstTs(t)
           /\ fs[t].part[FirstTs(t)] = NullText
           /\ \A c \in 1..FirstTs(t) :
                db[t].rows[FirstBad(t)][c].type = "Null" => fs[t].part[c] = NullText

\* C20 witness: the first of two rows holds NULL in its plain column and in
\* its timestamp column; the export failed there, the file holds the header
\* and the two null fields, and the second row was not written.
C20_Witness ==
    \E t \in AllTables :
      /\ task[t].result = "ParseError"
      /\ Len(db[t].cols) = 2
      /\ Len(db[t].rows) = 2
      /\ db[t].rows[1] = <<NullCell, NullCell>>
      /\ fs[t].recs = <<header_of(db[t].cols)>>
      /\ fs[t].part = <<NullText, NullText>>

====
